---- MODULE Spec2Model ----
(***************************************************************************)
(* Rollback synchronization core: the Sync Layer (sync_layer.rs) with its  *)
(* saved-state ring, and the Sync-Test Session (test_session.rs) driving   *)
(* it.  Frame numbers are i32 in the source; every frame of the model is   *)
(* bounded by MaxFrame, far from the overflow range.                       *)
(*                                                                         *)
(* An operation of the source is an operator from a state record to a      *)
(* result record [st, res, ret]: res is "Ok", the name of the returned     *)
(* error, or "panic" for a failed assert!/panic!/index out of bounds.      *)
(* Option<T> is modelled as a set: None = {}, Some(v) = {v}.               *)
(***************************************************************************)
EXTENDS Integers, Sequences, FiniteSets, TLC

VARIABLES sync_layer, sess, host, last, pc, saves

vars == <<sync_layer, sess, host, last, pc, saves>>

(* ---------------- program constants ---------------- *)

NULL_FRAME == -1

MAX_PREDICTION_FRAMES == 8

MAX_INPUT_DELAY == 10

(* ---------------- bounds of the model ---------------- *)

\* frames are simulated while current_frame < MaxFrame
MaxFrame == 10

\* game state values of the host are taken modulo NumVals
NumVals == 3

\* players of the directly driven Sync Layer, as the tests construct it
LayerPlayers == 2

\* frames of the directly driven ring are simulated below RingMaxFrame
RingMaxFrame == 9

\* snapshots saved into a fresh ring carry frames 0..MaxSaveFrame
MaxSaveFrame == 7

\* number of snapshots saved into a fresh ring
MaxSaves == 9

\* rollbacks (successful load_frame calls) made on the directly driven ring
MaxLoads == 2

\* frame delays of the directly driven Sync Layer are at most MaxDelay
MaxDelay == 3

\* delayed inputs are handed in while current_frame < DelayMaxFrame
DelayMaxFrame == 6

\* players of a Sync-Test Session, as its tests construct it
SessionPlayers == 2

\* a session is advanced while its current_frame < SessMaxFrame
SessMaxFrame == 9

\* advance_frame calls in which a non-deterministic host deviates
MaxGlitches == 2

\* a session being set up is advanced while its current_frame < SetupMaxFrame
SetupMaxFrame == 3

\* the payloads player 0 chooses from
Bits == {0, 1}

\* the frame delays a game asks for
Delays == {0, MAX_INPUT_DELAY, MAX_INPUT_DELAY + 1}

RingIdx == 0..(MAX_PREDICTION_FRAMES - 1)

Min(S) == CHOOSE x \in S : \A y \in S : x <= y

Max(S) == CHOOSE x \in S : \A y \in S : x >= y

Result(st, res, ret) == [st |-> st, res |-> res, ret |-> ret]

(* ---------------- frame input, game state ---------------- *)

GameInput_new(frame) == [frame |-> frame, bits |-> 0]

BLANK_STATE == [frame |-> NULL_FRAME, buffer |-> 0, checksum |-> {}]

(* ---------------- Input Queue (one per player) ---------------- *)

InputQueue_new ==
    [ frame_delay |-> 0,
      inputs |-> << >>,
      last_user_added_frame |-> NULL_FRAME,
      first_incorrect_frame |-> NULL_FRAME,
      last_requested_frame |-> NULL_FRAME,
      prediction |-> {} ]

\* bits of the most recent authoritative input, zero if there is none
LastBits(q) == IF q.inputs = << >> THEN 0 ELSE q.inputs[Len(q.inputs)].bits

LastStoredFrame(q) ==
    IF q.inputs = << >> THEN NULL_FRAME ELSE q.inputs[Len(q.inputs)].frame

StoredAt(q, frame) == {i \in 1..Len(q.inputs) : q.inputs[i].frame = frame}

\* delay-induced gap frames, filled with the previous input's bits
GapFill(q, upto) ==
    LET from == IF q.inputs = << >> THEN 0 ELSE LastStoredFrame(q) + 1
    IN [i \in 1..Max({0, upto - from}) |->
            [frame |-> from + i - 1, bits |-> LastBits(q)]]

InputQueue_add_input(q, input) ==
    IF ~(q.last_user_added_frame = NULL_FRAME
         \/ input.frame = q.last_user_added_frame + 1)
    THEN Result(q, "panic", NULL_FRAME)
    ELSE
      LET stored == input.frame + q.frame_delay
          mismatch == \E p \in q.prediction :
                          p.frame = stored /\ p.bits # input.bits
          match == \E p \in q.prediction :
                          p.frame = stored /\ p.bits = input.bits
      IN IF stored <= LastStoredFrame(q)
         THEN Result([q EXCEPT !.last_user_added_frame = input.frame],
                     "Ok", NULL_FRAME)
         ELSE Result(
                [q EXCEPT
                   !.last_user_added_frame = input.frame,
                   !.inputs = q.inputs \o GapFill(q, stored)
                                \o << [frame |-> stored, bits |-> input.bits] >>,
                   !.first_incorrect_frame =
                       IF mismatch /\ (q.first_incorrect_frame = NULL_FRAME
                                       \/ stored < q.first_incorrect_frame)
                       THEN stored ELSE q.first_incorrect_frame,
                   !.prediction = IF match THEN {} ELSE q.prediction],
                "Ok", stored)

InputQueue_input(q, requested_frame) ==
    LET q1 == [q EXCEPT !.last_requested_frame =
                            Max({q.last_requested_frame, requested_frame})]
    IN IF StoredAt(q, requested_frame) # {}
       THEN Result(q1, "Ok",
                   q.inputs[CHOOSE i \in StoredAt(q, requested_frame) : TRUE])
       ELSE LET p == IF q.prediction = {}
                     THEN [frame |-> requested_frame, bits |-> LastBits(q)]
                     ELSE CHOOSE x \in q.prediction : TRUE
            IN Result([q1 EXCEPT !.prediction = {p}], "Ok",
                      [frame |-> requested_frame, bits |-> p.bits])

InputQueue_discard_confirmed_frames(q, frame) ==
    LET f == IF q.last_requested_frame = NULL_FRAME
             THEN frame ELSE Min({frame, q.last_requested_frame})
    IN [q EXCEPT !.inputs = SelectSeq(q.inputs, LAMBDA e : e.frame >= f)]

InputQueue_set_frame_delay(q, delay) == [q EXCEPT !.frame_delay = delay]

(* ---------------- Saved-State Ring ---------------- *)

\* head moves on by two slots
save_state_skips(ss, state_to_save) ==
    LET h == (ss.head + 2) % MAX_PREDICTION_FRAMES
    IN [head |-> h, states |-> [ss.states EXCEPT ![h] = state_to_save]]

save_state_in_place(ss, state_to_save) ==
    [head |-> ss.head, states |-> [ss.states EXCEPT ![ss.head] = state_to_save]]

save_state(ss, state_to_save) ==
    LET h == (ss.head + 1) % MAX_PREDICTION_FRAMES
    IN [head |-> h, states |-> [ss.states EXCEPT ![h] = state_to_save]]

state_at_head(ss) == ss.states[ss.head]

(* ---------------- Sync Layer ---------------- *)

SyncLayer_new(num_players) ==
    [ num_players |-> num_players,
      last_confirmed_frame |-> -1,
      current_frame |-> 0,
      saved_states |-> [head |-> 0, states |-> [i \in RingIdx |-> BLANK_STATE]],
      input_queues |-> [p \in 0..(num_players - 1) |-> InputQueue_new] ]

advance_frame(sl) == [sl EXCEPT !.current_frame = sl.current_frame + 1]

\* the snapshot is accepted but not stored
save_current_state_drops(sl, state_to_save) ==
    IF state_to_save.frame = NULL_FRAME
    THEN Result(sl, "panic", {})
    ELSE Result(sl, "Ok", {})

save_current_state(sl, state_to_save) ==
    IF state_to_save.frame = NULL_FRAME
    THEN Result(sl, "panic", {})
    ELSE Result([sl EXCEPT !.saved_states = save_state(sl.saved_states, state_to_save)],
                "Ok", {})

last_saved_state(sl) ==
    IF state_at_head(sl.saved_states).frame = NULL_FRAME
    THEN {} ELSE {state_at_head(sl.saved_states)}

\* the indices a scan of the ring finds holding the frame; empty: the panic
FrameSlots(sl, frame) == {i \in RingIdx : sl.saved_states.states[i].frame = frame}

find_saved_frame_index(sl, frame) ==
    IF FrameSlots(sl, frame) = {}
    THEN Result(sl, "panic", 0)
    ELSE Result(sl, "Ok", Min(FrameSlots(sl, frame)))

load_frame_accepts_strict(sl, frame_to_load) ==
    /\ frame_to_load # NULL_FRAME
    /\ frame_to_load < sl.current_frame
    /\ frame_to_load > sl.current_frame - MAX_PREDICTION_FRAMES

load_frame_accepts(sl, frame_to_load) ==
    /\ frame_to_load # NULL_FRAME
    /\ frame_to_load < sl.current_frame
    /\ frame_to_load >= sl.current_frame - MAX_PREDICTION_FRAMES

\* the frame counter is left where it was
load_frame_keeps_frame(sl, frame_to_load) ==
    IF ~load_frame_accepts(sl, frame_to_load)
    THEN Result(sl, "panic", BLANK_STATE)
    ELSE
      LET found == find_saved_frame_index(sl, frame_to_load)
      IN IF found.res = "panic"
         THEN Result(sl, "panic", BLANK_STATE)
         ELSE Result(
                [sl EXCEPT
                   !.saved_states.head = (found.ret + 1) % MAX_PREDICTION_FRAMES],
                "Ok", sl.saved_states.states[found.ret])

load_frame(sl, frame_to_load) ==
    IF ~load_frame_accepts(sl, frame_to_load)
    THEN Result(sl, "panic", BLANK_STATE)
    ELSE
      LET found == find_saved_frame_index(sl, frame_to_load)
      IN IF found.res = "panic"
         THEN Result(sl, "panic", BLANK_STATE)
         ELSE Result(
                [sl EXCEPT
                   !.saved_states.head = (found.ret + 1) % MAX_PREDICTION_FRAMES,
                   !.current_frame = frame_to_load],
                "Ok", sl.saved_states.states[found.ret])

threshold_reached_late(sl) ==
    sl.current_frame - sl.last_confirmed_frame > MAX_PREDICTION_FRAMES + 1

threshold_reached_early(sl) ==
    sl.current_frame - sl.last_confirmed_frame >= MAX_PREDICTION_FRAMES

threshold_reached(sl) ==
    sl.current_frame - sl.last_confirmed_frame > MAX_PREDICTION_FRAMES

\* the frame of the input is asserted before the threshold is tested
add_local_input_asserts_first(sl, player_handle, input) ==
    IF input.frame # sl.current_frame
       \/ player_handle \notin DOMAIN sl.input_queues
    THEN Result(sl, "panic", NULL_FRAME)
    ELSE IF threshold_reached(sl)
    THEN Result(sl, "PredictionThreshold", NULL_FRAME)
    ELSE LET r == InputQueue_add_input(sl.input_queues[player_handle], input)
         IN Result([sl EXCEPT !.input_queues[player_handle] = r.st], r.res, r.ret)

add_local_input(sl, player_handle, input) ==
    IF threshold_reached(sl)
    THEN Result(sl, "PredictionThreshold", NULL_FRAME)
    ELSE IF input.frame # sl.current_frame
              \/ player_handle \notin DOMAIN sl.input_queues
    THEN Result(sl, "panic", NULL_FRAME)
    ELSE LET r == InputQueue_add_input(sl.input_queues[player_handle], input)
         IN Result([sl EXCEPT !.input_queues[player_handle] = r.st], r.res, r.ret)

add_remote_input(sl, player_handle, input) ==
    IF player_handle \notin DOMAIN sl.input_queues
    THEN Result(sl, "panic", NULL_FRAME)
    ELSE LET r == InputQueue_add_input(sl.input_queues[player_handle], input)
         IN Result([sl EXCEPT !.input_queues[player_handle] = r.st], r.res, r.ret)

\* the inputs of the frame before the current one are asked for
synchronized_inputs_stale(sl) ==
    LET rs == [p \in DOMAIN sl.input_queues |->
                  InputQueue_input(sl.input_queues[p], sl.current_frame - 1)]
    IN Result([sl EXCEPT !.input_queues = [p \in DOMAIN sl.input_queues |-> rs[p].st]],
              "Ok", [p \in DOMAIN sl.input_queues |-> rs[p].ret])

synchronized_inputs(sl) ==
    LET rs == [p \in DOMAIN sl.input_queues |->
                  InputQueue_input(sl.input_queues[p], sl.current_frame)]
    IN Result([sl EXCEPT !.input_queues = [p \in DOMAIN sl.input_queues |-> rs[p].st]],
              "Ok", [p \in DOMAIN sl.input_queues |-> rs[p].ret])

set_last_confirmed_frame(sl, frame) ==
    [sl EXCEPT
       !.last_confirmed_frame = frame,
       !.input_queues =
           IF frame > 0
           THEN [p \in DOMAIN sl.input_queues |->
                    InputQueue_discard_confirmed_frames(sl.input_queues[p], frame - 1)]
           ELSE sl.input_queues]

set_frame_delay(sl, player_handle, delay) ==
    IF ~(player_handle < sl.num_players) \/ ~(delay <= MAX_INPUT_DELAY)
    THEN Result(sl, "panic", {})
    ELSE Result([sl EXCEPT !.input_queues[player_handle] =
                    InputQueue_set_frame_delay(sl.input_queues[player_handle], delay)],
                "Ok", {})

(* ---------------- observation of the last call ---------------- *)

\* The call made by the last step: its arguments, the Sync Layer fields
\* before it, and its outcome.  loaded_idx/loaded_frame remember the ring
\* slot and the frame of the last successful load_frame until the next
\* one; loads counts the successful load_frame calls; slot is the ring
\* index a save wrote to; saved is the snapshot of the most recent
\* successful save_current_state (Option).
NoCall ==
    [ op |-> "none", res |-> "Ok", arg |-> NULL_FRAME,
      input |-> GameInput_new(NULL_FRAME),
      ret |-> NULL_FRAME, ret_state |-> BLANK_STATE, slot |-> -1,
      pre_current_frame |-> 0, pre_last_confirmed_frame |-> NULL_FRAME,
      pre_added |-> NULL_FRAME, pre_pc |-> "advanced",
      pre_loads |-> 0, unchanged |-> TRUE, inputs |-> << >>, saved |-> {},
      loaded_idx |-> -1, loaded_frame |-> NULL_FRAME, loads |-> 0 ]

Call(op, r, arg, pre) ==
    [ NoCall EXCEPT
        !.op = op, !.res = r.res, !.arg = arg,
        !.pre_current_frame = pre.current_frame,
        !.pre_last_confirmed_frame = pre.last_confirmed_frame,
        !.pre_pc = pc,
        !.pre_loads = last.loads,
        !.unchanged = (r.st = pre),
        !.saved = last.saved,
        !.loaded_idx = last.loaded_idx, !.loaded_frame = last.loaded_frame,
        !.loads = last.loads ]

NoSession ==
    [ current_frame |-> NULL_FRAME, num_players |-> 0, check_distance |-> 0,
      running |-> FALSE, current_input |-> GameInput_new(NULL_FRAME),
      saved_frames |-> << >> ]

NoHost ==
    [frame |-> 0, val |-> 0, deterministic |-> TRUE, glitches |-> 0,
     checksums |-> "all"]

Outcome(r, next_pc) == IF r.res = "panic" THEN "panicked" ELSE next_pc

Alive == pc # "panicked"

(* ========== the Sync Layer driven directly: inputs and confirmation ====== *)
(* The caller advances the frame, hands in local inputs and confirms       *)
(* frames.  As in the tests of sync_layer.rs the payload of an input is    *)
(* its frame number.  pc is "panicked" after a fatal error (the process is *)
(* gone), "advanced" otherwise.                                            *)

LayerInit ==
    /\ sync_layer = SyncLayer_new(LayerPlayers)
    /\ sess = NoSession
    /\ host = NoHost
    /\ last = NoCall
    /\ pc = "advanced"
    /\ saves = << >>

LayerAdvanceFrame ==
    /\ Alive
    /\ sync_layer.current_frame < MaxFrame
    /\ LET r == Result(advance_frame(sync_layer), "Ok", {})
       IN /\ sync_layer' = r.st
          /\ last' = Call("advance_frame", r, NULL_FRAME, sync_layer)
    /\ UNCHANGED <<sess, host, pc, saves>>

LayerAddLocalInput ==
    /\ Alive
    /\ \E p \in 0..(LayerPlayers - 1),
          frame \in {sync_layer.current_frame, sync_layer.current_frame + 1} :
         LET input == [frame |-> frame, bits |-> frame]
             r == add_local_input(sync_layer, p, input)
         IN /\ sync_layer' = r.st
            /\ last' = [Call("add_local_input", r, p, sync_layer) EXCEPT
                          !.input = input, !.ret = r.ret,
                          !.pre_added =
                              sync_layer.input_queues[p].last_user_added_frame]
            /\ pc' = Outcome(r, pc)
    /\ UNCHANGED <<sess, host, saves>>

\* confirmations only ever raise the confirmed frame
LayerSetLastConfirmedFrame ==
    /\ Alive
    /\ \E f \in (sync_layer.last_confirmed_frame + 1)..sync_layer.current_frame :
         LET r == Result(set_last_confirmed_frame(sync_layer, f), "Ok", {})
         IN /\ sync_layer' = r.st
            /\ last' = Call("set_last_confirmed_frame", r, f, sync_layer)
    /\ UNCHANGED <<sess, host, pc, saves>>

LayerNext ==
    \/ LayerAdvanceFrame
    \/ LayerAddLocalInput
    \/ LayerSetLastConfirmedFrame

Spec == LayerInit /\ [][LayerNext]_vars

(* ========== the Sync Layer driven directly: the saved-state ring ========= *)
(* The host saves a snapshot of the current frame, advances, and rolls     *)
(* back with load_frame.  pc = "advanced": the current frame has not been  *)
(* saved since it was reached; pc = "saved": it has.  While no load_frame  *)
(* has succeeded (last.loads = 0) the host has saved exactly one snapshot  *)
(* per frame.  The checksum of a snapshot is the number of rollbacks made  *)
(* before it was taken, so a re-saved frame differs from its original.     *)

RingInit ==
    /\ sync_layer = SyncLayer_new(LayerPlayers)
    /\ sess = NoSession
    /\ host = NoHost
    /\ last = NoCall
    /\ pc = "advanced"
    /\ saves = << >>

RingSaveCurrentState ==
    /\ pc = "advanced"
    /\ \E frame \in {sync_layer.current_frame, NULL_FRAME} :
         LET state == [frame |-> frame, buffer |-> 0, checksum |-> {last.loads}]
             r == save_current_state(sync_layer, state)
         IN /\ sync_layer' = r.st
            /\ last' = [Call("save_current_state", r, frame, sync_layer)
                           EXCEPT !.slot = r.st.saved_states.head,
                                  !.saved = IF r.res = "Ok" THEN {state}
                                            ELSE last.saved]
            /\ pc' = Outcome(r, "saved")
    /\ UNCHANGED <<sess, host, saves>>

RingAdvanceFrame ==
    /\ pc = "saved"
    /\ sync_layer.current_frame < RingMaxFrame
    /\ LET r == Result(advance_frame(sync_layer), "Ok", {})
       IN /\ sync_layer' = r.st
          /\ last' = Call("advance_frame", r, NULL_FRAME, sync_layer)
    /\ pc' = "advanced"
    /\ UNCHANGED <<sess, host, saves>>

RingLoadFrame ==
    /\ pc \in {"advanced", "saved"}
    /\ last.loads < MaxLoads
    /\ \E f \in (sync_layer.current_frame - MAX_PREDICTION_FRAMES - 1)
                    ..sync_layer.current_frame :
         LET r == load_frame(sync_layer, f)
         IN /\ sync_layer' = r.st
            /\ last' = [Call("load_frame", r, f, sync_layer) EXCEPT
                          !.ret_state = r.ret,
                          !.loaded_idx =
                              IF r.res = "Ok"
                              THEN (r.st.saved_states.head
                                      + MAX_PREDICTION_FRAMES - 1)
                                   % MAX_PREDICTION_FRAMES
                              ELSE last.loaded_idx,
                          !.loaded_frame = IF r.res = "Ok" THEN f
                                           ELSE last.loaded_frame,
                          !.loads = IF r.res = "Ok" THEN last.loads + 1
                                    ELSE last.loads]
            /\ pc' = Outcome(r, "advanced")
    /\ UNCHANGED <<sess, host, saves>>

RingSetLastConfirmedFrame ==
    /\ pc = "saved"
    /\ \E f \in (sync_layer.last_confirmed_frame + 1)..sync_layer.current_frame :
         LET r == Result(set_last_confirmed_frame(sync_layer, f), "Ok", {})
         IN /\ sync_layer' = r.st
            /\ last' = Call("set_last_confirmed_frame", r, f, sync_layer)
    /\ UNCHANGED <<sess, host, pc, saves>>

RingNext ==
    \/ RingSaveCurrentState
    \/ RingAdvanceFrame
    \/ RingLoadFrame
    \/ RingSetLastConfirmedFrame

SpecRing == RingInit /\ [][RingNext]_vars

(* ========== a fresh ring filled with snapshots of distinct frames ======== *)
(* saves logs every snapshot handed to save_current_state together with    *)
(* the ring index it was written to.                                       *)

SavesInit ==
    /\ sync_layer = SyncLayer_new(LayerPlayers)
    /\ sess = NoSession
    /\ host = NoHost
    /\ last = NoCall
    /\ pc = "advanced"
    /\ saves = << >>

SavedFrames == {saves[i].state.frame : i \in 1..Len(saves)}

SavesSaveCurrentState ==
    /\ Alive
    /\ Len(saves) < MaxSaves
    /\ \E frame \in (0..MaxSaveFrame) \ SavedFrames :
         LET state == [frame |-> frame, buffer |-> 0, checksum |-> {Len(saves)}]
             r == save_current_state(sync_layer, state)
         IN /\ sync_layer' = r.st
            /\ saves' = Append(saves, [state |-> state,
                                       slot |-> r.st.saved_states.head])
            /\ pc' = Outcome(r, pc)
    /\ UNCHANGED <<sess, host, last>>

SavesNext == SavesSaveCurrentState

SpecSaves == SavesInit /\ [][SavesNext]_vars

(* ========== the Sync Layer driven directly: delayed inputs ============== *)
(* As in test_different_delays: the frame delays are set first, then every *)
(* frame the input of each player is handed in with add_remote_input, the  *)
(* synchronized inputs may be read, and the frame is advanced.  saves[p]   *)
(* logs the bits handed in for player p, frame by frame.  Player 0 picks   *)
(* its bits, the other players send the frame number.                      *)

DelayInit ==
    /\ sync_layer = SyncLayer_new(LayerPlayers)
    /\ sess = NoSession
    /\ host = NoHost
    /\ last = NoCall
    /\ pc = "setup"
    /\ saves = [p \in 0..(LayerPlayers - 1) |-> << >>]

DelaySetFrameDelay ==
    /\ pc = "setup"
    /\ \E p \in 0..(LayerPlayers - 1), delay \in 0..MaxDelay :
         LET r == set_frame_delay(sync_layer, p, delay)
         IN /\ sync_layer' = r.st
            /\ last' = Call("set_frame_delay", r, delay, sync_layer)
            /\ pc' = Outcome(r, pc)
    /\ UNCHANGED <<sess, host, saves>>

DelayPayloads(p) ==
    IF p = 0 THEN {2 * sync_layer.current_frame + b : b \in Bits}
    ELSE {sync_layer.current_frame}

DelayAddRemoteInput ==
    /\ pc \in {"setup", "running"}
    /\ sync_layer.current_frame < DelayMaxFrame
    /\ \E p \in 0..(LayerPlayers - 1) :
         /\ Len(saves[p]) = sync_layer.current_frame
         /\ \A q \in 0..(p - 1) : Len(saves[q]) > sync_layer.current_frame
         /\ \E bits \in DelayPayloads(p) :
              LET input == [frame |-> sync_layer.current_frame, bits |-> bits]
                  r == add_remote_input(sync_layer, p, input)
              IN /\ sync_layer' = r.st
                 /\ last' = [Call("add_remote_input", r, p, sync_layer)
                                EXCEPT !.input = input, !.ret = r.ret]
                 /\ saves' = [saves EXCEPT ![p] = Append(saves[p], bits)]
                 /\ pc' = Outcome(r, "running")
    /\ UNCHANGED <<sess, host>>

DelaySynchronizedInputs ==
    /\ pc = "running"
    /\ last.op # "synchronized_inputs"
    /\ LET r == synchronized_inputs(sync_layer)
       IN /\ sync_layer' = r.st
          /\ last' = [Call("synchronized_inputs", r, NULL_FRAME, sync_layer)
                         EXCEPT !.inputs = r.ret]
    /\ UNCHANGED <<sess, host, pc, saves>>

DelayAdvanceFrame ==
    /\ pc = "running"
    /\ \A p \in 0..(LayerPlayers - 1) : Len(saves[p]) > sync_layer.current_frame
    /\ LET r == Result(advance_frame(sync_layer), "Ok", {})
       IN /\ sync_layer' = r.st
          /\ last' = Call("advance_frame", r, NULL_FRAME, sync_layer)
    /\ UNCHANGED <<sess, host, pc, saves>>

DelayNext ==
    \/ DelaySetFrameDelay
    \/ DelayAddRemoteInput
    \/ DelaySynchronizedInputs
    \/ DelayAdvanceFrame

SpecDelay == DelayInit /\ [][DelayNext]_vars

(* ======================= the game host ======================= *)
(* The host owns the game state: the number of frames executed and a      *)
(* value.  A deterministic host computes the next value from the previous *)
(* one and the inputs; noise is what a non-deterministic host adds, in at *)
(* most MaxGlitches of its advance_frame calls.                           *)
(* checksums: "all" snapshots carry one, or only "some" (those of a       *)
(* non-zero value).                                                       *)

HostKinds(deterministic) ==
    { [frame |-> 0, val |-> 0, deterministic |-> deterministic,
       glitches |-> IF deterministic THEN 0 ELSE MaxGlitches,
       checksums |-> c] : c \in {"all", "some"} }

Host_checksum(h) ==
    IF h.checksums = "all" \/ h.val # 0
    THEN {h.val} ELSE {}

Host_save_game_state(h) ==
    [frame |-> h.frame, buffer |-> h.val, checksum |-> Host_checksum(h)]

Host_load_game_state(h, state) ==
    [h EXCEPT !.frame = state.frame, !.val = state.buffer]

InputSum(inputs) ==
    LET RECURSIVE Sum(_)
        Sum(p) == IF p < 0 THEN 0 ELSE (p + 1) * inputs[p].bits + Sum(p - 1)
    IN Sum(Max(DOMAIN inputs \cup {-1}))

Host_advance_frame(h, inputs, noise) ==
    [h EXCEPT !.frame = h.frame + 1,
              !.glitches = h.glitches - noise,
              !.val = (h.val + 1 + InputSum(inputs) + noise) % NumVals]

(* ======================= history buffer ======================= *)

CircularBuffer_push_back(buf, x) ==
    IF Len(buf) = MAX_PREDICTION_FRAMES
    THEN Append(Tail(buf), x) ELSE Append(buf, x)

\* Option of the element at the zero-based position
CircularBuffer_get(buf, pos) ==
    IF pos >= 0 /\ pos < Len(buf) THEN {buf[pos + 1]} ELSE {}

(* ======================= Sync-Test Session ======================= *)

SyncTestSession_new(check_distance, num_players) ==
    [ current_frame |-> NULL_FRAME,
      num_players |-> num_players,
      check_distance |-> check_distance,
      running |-> FALSE,
      current_input |-> GameInput_new(NULL_FRAME),
      saved_frames |-> << >> ]

\* the session with its Sync Layer and the host it drives; res is "run"
\* while the handler is executing.  compared logs the pairs of checksums
\* the rollback loop looked at, loads counts its load_frame calls,
\* advances the host's advance_frame calls.
Ctx(se, sl, h) ==
    [ sess |-> se, sl |-> sl, host |-> h, res |-> "run", ret |-> NULL_FRAME,
      compared |-> << >>, loads |-> 0, advances |-> 0 ]

Return(c, res) == [c EXCEPT !.res = res]

add_player_rejects(se, handle) == handle > se.num_players

add_player(c, handle) ==
    IF add_player_rejects(c.sess, handle)
    THEN Return(c, "InvalidRequest")
    ELSE [Return(c, "Ok") EXCEPT !.ret = handle]

\* a running session is started again
start_session_restarts(c) ==
    [Return(c, "Ok") EXCEPT !.sess.running = TRUE,
                            !.sess.current_frame = 0]

start_session(c) ==
    IF c.sess.running
    THEN Return(c, "InvalidRequest")
    ELSE [Return(c, "Ok") EXCEPT !.sess.running = TRUE,
                                 !.sess.current_frame = 0]

Session_add_local_input(c, player_handle, bits) ==
    IF player_handle > c.sess.num_players
    THEN Return(c, "InvalidPlayerHandle")
    ELSE IF ~c.sess.running
    THEN Return(c, "NotSynchronized")
    ELSE
      LET input == [frame |-> c.sess.current_frame, bits |-> bits]
          r == add_local_input(c.sl, player_handle, input)
      IN [c EXCEPT !.sess.current_input = input,
                   !.sl = r.st,
                   !.res = r.res]

Session_set_frame_delay(c, frame_delay, player_handle) ==
    IF c.sess.running
    THEN Return(c, "InvalidRequest")
    ELSE LET r == set_frame_delay(c.sl, player_handle, frame_delay)
         IN [c EXCEPT !.sl = r.st, !.res = r.res]

(* ---- advance_frame, step by step; a step acts only while res = "run" ---- *)

\* lines 87-103: save the current state, keep a copy in the history
SaveAndRecord(c) ==
    LET r == save_current_state(c.sl, Host_save_game_state(c.host))
        saved == last_saved_state(r.st)
    IN IF r.res = "panic" THEN Return(c, "panic")
       ELSE IF saved = {}
       THEN [c EXCEPT !.sl = r.st, !.res = "GeneralFailure"]
       ELSE [c EXCEPT
               !.sl = r.st,
               !.sess.saved_frames =
                   CircularBuffer_push_back(c.sess.saved_frames,
                       [ frame |-> c.sess.current_frame,
                         state |-> CHOOSE x \in saved : TRUE,
                         input |-> c.sess.current_input ])]

\* the noise of the host's next advance_frame call
Noise(c, glitch) == IF c.advances = glitch THEN 1 ELSE 0

\* both frame counters are advanced by two
AdvanceOnce_twice(c, glitch) ==
    IF c.res # "run" THEN c
    ELSE
      LET si == synchronized_inputs(c.sl)
      IN IF c.sess.num_players = 0
            \/ si.ret[0].frame # si.st.current_frame
            \/ si.ret[0].frame # c.sess.current_frame
         THEN Return(c, "panic")
         ELSE [c EXCEPT
                 !.host = Host_advance_frame(c.host, si.ret, Noise(c, glitch)),
                 !.advances = c.advances + 1,
                 !.sl = advance_frame(advance_frame(si.st)),
                 !.sess.current_frame = c.sess.current_frame + 2,
                 !.sess.current_input.bits = 0]

\* lines 105-116: advance the host and both frame counters
AdvanceOnce(c, glitch) ==
    IF c.res # "run" THEN c
    ELSE
      LET si == synchronized_inputs(c.sl)
      IN IF c.sess.num_players = 0
            \/ si.ret[0].frame # si.st.current_frame
            \/ si.ret[0].frame # c.sess.current_frame
         THEN Return(c, "panic")
         ELSE [c EXCEPT
                 !.host = Host_advance_frame(c.host, si.ret, Noise(c, glitch)),
                 !.advances = c.advances + 1,
                 !.sl = advance_frame(si.st),
                 !.sess.current_frame = c.sess.current_frame + 1,
                 !.sess.current_input.bits = 0]

rollback_enabled(se) == Len(se.saved_frames) > se.check_distance

\* lines 121-125: load the frame check_distance frames in the past
LoadTarget(c) ==
    IF c.res # "run" THEN c
    ELSE
      LET frame_to_load == c.sess.current_frame - c.sess.check_distance
          r == load_frame(c.sl, frame_to_load)
      IN IF r.res = "panic" \/ r.st.current_frame # frame_to_load
         THEN [Return(c, "panic") EXCEPT !.loads = c.loads + 1]
         ELSE [c EXCEPT !.sl = r.st,
                        !.host = Host_load_game_state(c.host, r.ret),
                        !.loads = c.loads + 1]

\* an absent checksum counts as a mismatch
checksums_differ_strict(cs1, cs2) == cs1 # cs2

checksums_differ(cs1, cs2) == cs1 # {} /\ cs2 # {} /\ cs1 # cs2

\* lines 129-161: one pass of the resimulation loop, for index i
ResimulateOnce(c, i, glitch) ==
    LET frame_to_load == c.sess.current_frame - c.sess.check_distance
        r == save_current_state(c.sl, Host_save_game_state(c.host))
        pos_in_queue == Len(c.sess.saved_frames) - 1 - i
        got == CircularBuffer_get(c.sess.saved_frames, pos_in_queue)
        old_frame_info == CHOOSE x \in got : TRUE
        head_state == last_saved_state(r.st)
        last_saved == CHOOSE x \in head_state : TRUE
        si == synchronized_inputs(r.st)
    IN IF r.res = "panic" \/ pos_in_queue < 0 THEN Return(c, "panic")
       ELSE IF got = {} THEN [c EXCEPT !.sl = r.st, !.res = "GeneralFailure"]
       ELSE IF old_frame_info.frame
                  # frame_to_load + (c.sess.check_distance - 1 - i)
               \/ r.st.current_frame # old_frame_info.frame
               \/ head_state = {}
       THEN Return(c, "panic")
       ELSE LET c1 == [c EXCEPT
                         !.sl = r.st,
                         !.compared = Append(c.compared,
                             [ frame |-> old_frame_info.frame,
                               resimulated |-> last_saved.checksum,
                               original |-> old_frame_info.state.checksum ])]
            IN IF checksums_differ(last_saved.checksum,
                                   old_frame_info.state.checksum)
               THEN Return(c1, "SyncTestFailed")
               ELSE [c1 EXCEPT
                       !.sl = advance_frame(si.st),
                       !.host = Host_advance_frame(c.host, si.ret,
                                                   Noise(c, glitch)),
                       !.advances = c.advances + 1]

RECURSIVE Resimulate(_, _, _)
Resimulate(c, i, glitch) ==
    IF c.res # "run" \/ i < 0 THEN c
    ELSE Resimulate(ResimulateOnce(c, i, glitch), i - 1, glitch)

\* the loaded frame is never confirmed
FinishRollback_unconfirmed(c) ==
    IF c.res # "run" THEN c
    ELSE IF Host_save_game_state(c.host).frame # c.sess.current_frame
            \/ c.sl.current_frame # c.sess.current_frame
    THEN Return(c, "panic")
    ELSE c

\* lines 164-171: back at the current frame; confirm the frame loaded
FinishRollback(c) ==
    IF c.res # "run" THEN c
    ELSE IF Host_save_game_state(c.host).frame # c.sess.current_frame
            \/ c.sl.current_frame # c.sess.current_frame
    THEN Return(c, "panic")
    ELSE [c EXCEPT !.sl = set_last_confirmed_frame(c.sl,
                       c.sess.current_frame - c.sess.check_distance)]

Rollback(c, glitch) ==
    IF c.res # "run" \/ ~rollback_enabled(c.sess) THEN c
    ELSE FinishRollback(
           Resimulate(LoadTarget(c), c.sess.check_distance - 1, glitch))

Session_advance_frame(c, glitch) ==
    LET done == Rollback(AdvanceOnce(SaveAndRecord(c), glitch), glitch)
    IN IF done.res # "run" THEN done
       ELSE IF done.sl.current_frame # done.sess.current_frame
       THEN Return(done, "panic")
       ELSE Return(done, "Ok")

(* ---------------- the session driven by a game ---------------- *)
(* Every frame the game hands in the input of each player once, in the    *)
(* order of the handles, then advances.  Player 0 sends any payload; the  *)
(* others send the loop index.                                            *)
(* Players are added before the start; calls with a handle out of range   *)
(* come before the start and during the first frames.                     *)

NoSessCall ==
    [ op |-> "none", res |-> "Ok", arg |-> NULL_FRAME, ret |-> NULL_FRAME,
      compared |-> << >>, loads |-> 0,
      pre_frame |-> NULL_FRAME, pre_running |-> FALSE,
      pre_behind |-> 0, layer_unchanged |-> TRUE, unchanged |-> TRUE,
      handle |-> NULL_FRAME ]

SessCall(op, c, arg) ==
    [ NoSessCall EXCEPT
        !.op = op, !.res = c.res, !.arg = arg, !.ret = c.ret,
        !.compared = c.compared, !.loads = c.loads,
        !.pre_frame = sess.current_frame, !.pre_running = sess.running,
        !.pre_behind = sync_layer.current_frame - sync_layer.last_confirmed_frame,
        !.layer_unchanged = (c.sl = sync_layer),
        !.unchanged = (c.sess = sess /\ c.sl = sync_layer /\ c.host = host) ]

Here == Ctx(sess, sync_layer, host)

Commit(op, c, arg) ==
    /\ sess' = c.sess
    /\ sync_layer' = c.sl
    /\ host' = c.host
    /\ last' = SessCall(op, c, arg)
    /\ pc' = IF c.res = "panic" THEN "panicked" ELSE pc
    /\ UNCHANGED saves

SessionOf(hosts) ==
    /\ \E check_distance \in 0..(MAX_PREDICTION_FRAMES - 1) :
         sess = SyncTestSession_new(check_distance, SessionPlayers)
    /\ sync_layer = SyncLayer_new(SessionPlayers)
    /\ host \in hosts
    /\ last = NoSessCall
    /\ pc = "advanced"
    /\ saves = << >>

\* a session whose host is deterministic
SessInit == SessionOf(HostKinds(TRUE))

\* a session whose host is not
SyncTestInit == SessionOf(HostKinds(FALSE))

Added(p) ==
    sync_layer.input_queues[p].last_user_added_frame = sess.current_frame

\* every player sends the loop index, as the tests of test_session.rs do;
\* against a deterministic host player 0 chooses its payload freely
Payloads(p) ==
    IF p = 0 /\ host.deterministic THEN Bits ELSE {sess.current_frame}

SessAddPlayer ==
    /\ Alive
    /\ ~sess.running
    /\ \E handle \in 0..(SessionPlayers + 1) :
         Commit("add_player", add_player(Here, handle), handle)

SessStartSession ==
    /\ Alive
    /\ sess.current_frame <= 1
    /\ Commit("start_session", start_session(Here), NULL_FRAME)

SessAddLocalInput ==
    /\ Alive
    /\ \E handle \in 0..(SessionPlayers - 1) :
         /\ sess.running =>
               /\ ~Added(handle)
               /\ \A p \in 0..(handle - 1) : Added(p)
         /\ \E bits \in Payloads(handle) :
              Commit("add_local_input",
                     Session_add_local_input(Here, handle, bits), handle)

SessAddLocalInputOutOfRange ==
    /\ Alive
    /\ sess.current_frame <= 1
    /\ \E handle \in SessionPlayers..(SessionPlayers + 1) :
         Commit("add_local_input",
                Session_add_local_input(Here, handle, 0), handle)

SessAdvanceFrame ==
    /\ Alive
    /\ sess.current_frame < SessMaxFrame
    /\ sess.running => \A p \in 0..(SessionPlayers - 1) : Added(p)
    /\ \E glitch \in IF host.glitches = 0 THEN {-1}
                     ELSE -1..sess.check_distance :
         Commit("advance_frame", Session_advance_frame(Here, glitch), glitch)

SessNext ==
    \/ SessAddPlayer
    \/ SessStartSession
    \/ SessAddLocalInput
    \/ SessAddLocalInputOutOfRange
    \/ SessAdvanceFrame

SpecSession == SessInit /\ [][SessNext]_vars

SpecSyncTest == SyncTestInit /\ [][SessNext]_vars

(* ---------------- the session being set up ---------------- *)
(* The game also asks for frame delays, before and after the start, and   *)
(* runs the first frames.                                                 *)

SessSetFrameDelay ==
    /\ Alive
    /\ \E frame_delay \in Delays, handle \in 0..SessionPlayers :
         LET c == Session_set_frame_delay(Here, frame_delay, handle)
         IN /\ sess' = c.sess
            /\ sync_layer' = c.sl
            /\ host' = c.host
            /\ last' = [SessCall("set_frame_delay", c, frame_delay)
                           EXCEPT !.handle = handle]
            /\ pc' = IF c.res = "panic" THEN "panicked" ELSE pc
            /\ UNCHANGED saves

SetupAdvanceFrame ==
    /\ sess.current_frame < SetupMaxFrame
    /\ SessAdvanceFrame

SetupNext ==
    \/ SessAddPlayer
    \/ SessStartSession
    \/ SessSetFrameDelay
    \/ SessAddLocalInput
    \/ SetupAdvanceFrame

SpecSetup == SessInit /\ [][SetupNext]_vars

(* ======================= claims: Sync Layer ======================= *)

FramesBehind == last.pre_current_frame - last.pre_last_confirmed_frame

LocalInputCall ==
    /\ last.op = "add_local_input"
    /\ last.input.frame = last.pre_current_frame

\* the player handed in an input for every frame so far
Sequential == last.pre_added \in {NULL_FRAME, last.pre_current_frame - 1}

\* C1: add_local_input with input.frame = current_frame returns
\* PredictionThreshold iff current_frame - last_confirmed_frame exceeded
\* MAX_PREDICTION_FRAMES before the call; at a difference of exactly
\* MAX_PREDICTION_FRAMES it succeeds, at MAX_PREDICTION_FRAMES + 1 it fails.
C1_ThresholdIff ==
    LocalInputCall =>
        /\ (last.res = "PredictionThreshold")
              <=> (FramesBehind > MAX_PREDICTION_FRAMES)
        /\ (FramesBehind = MAX_PREDICTION_FRAMES /\ Sequential)
              => (last.res = "Ok" /\ last.ret = last.pre_current_frame)
        /\ (FramesBehind = MAX_PREDICTION_FRAMES + 1)
              => last.res = "PredictionThreshold"

C1_Witness ==
    /\ LocalInputCall
    /\ FramesBehind = MAX_PREDICTION_FRAMES
    /\ last.pre_last_confirmed_frame > NULL_FRAME
    /\ last.res = "Ok"

\* the scenario of C2: player 0 hands in the input of the current frame,
\* has done so for every earlier frame, and no frame was ever confirmed
UnconfirmedRun ==
    /\ LocalInputCall
    /\ last.arg = 0
    /\ last.pre_last_confirmed_frame = NULL_FRAME
    /\ last.pre_added = last.pre_current_frame - 1

ResaveAfterLoad ==
    /\ last.op = "save_current_state"
    /\ last.res = "Ok"
    /\ last.loaded_idx # -1
    /\ last.arg = last.loaded_frame
    /\ last.pre_current_frame = last.loaded_frame

\* C3: after load_frame(f) succeeds current_frame = f, and the next
\* save_current_state of a snapshot of frame f is written into the ring
\* slot the loaded snapshot was read from.
C3_SameSlot ==
    /\ (last.op = "load_frame" /\ last.res = "Ok")
          => sync_layer.current_frame = last.arg
    /\ ResaveAfterLoad => last.slot = last.loaded_idx

\* what the code does instead: the snapshot lands two slots further on
C3_TwoSlotsOn ==
    ResaveAfterLoad =>
        last.slot = (last.loaded_idx + 2) % MAX_PREDICTION_FRAMES

LoadCall == last.op = "load_frame"

LoadPreconditions ==
    /\ last.arg # NULL_FRAME
    /\ last.arg < last.pre_current_frame
    /\ last.arg >= last.pre_current_frame - MAX_PREDICTION_FRAMES

\* the host has saved exactly one snapshot per frame 0..current_frame-1
OnePerFrame == last.pre_loads = 0 /\ last.pre_pc = "advanced"

C4_Accepts ==
    LoadCall =>
        /\ last.res \in {"Ok", "panic"}
        /\ last.res = "Ok" => LoadPreconditions
        /\ ~LoadPreconditions => last.res = "panic"
        /\ (last.arg = last.pre_current_frame - MAX_PREDICTION_FRAMES - 1)
              => last.res = "panic"

\* C4 as claimed: load_frame is accepted only under its three
\* preconditions and asserts otherwise; after one snapshot per frame
\* load_frame(current_frame - MAX_PREDICTION_FRAMES) succeeds and returns
\* the snapshot of that frame, and one frame earlier asserts.
C4_Boundary ==
    /\ C4_Accepts
    /\ (LoadCall /\ OnePerFrame
          /\ last.arg = last.pre_current_frame - MAX_PREDICTION_FRAMES)
          => (last.res = "Ok" /\ last.ret_state.frame = last.arg)

\* C4 amended: the boundary load succeeds once current_frame has reached
\* MAX_PREDICTION_FRAMES, so that the frame was saved at all.
C4_BoundaryFromFull ==
    /\ C4_Accepts
    /\ (LoadCall /\ OnePerFrame
          /\ last.pre_current_frame >= MAX_PREDICTION_FRAMES
          /\ last.arg = last.pre_current_frame - MAX_PREDICTION_FRAMES)
          => (last.res = "Ok" /\ last.ret_state.frame = last.arg
              /\ sync_layer.current_frame = last.arg)

C4_Witness ==
    /\ LoadCall /\ OnePerFrame
    /\ last.pre_current_frame > MAX_PREDICTION_FRAMES
    /\ last.arg = last.pre_current_frame - MAX_PREDICTION_FRAMES
    /\ last.res = "Ok"

\* C5: after n <= MAX_PREDICTION_FRAMES saves of pairwise distinct non-NULL
\* frames into a fresh ring, the lookup of every saved frame returns the
\* index of the slot holding that snapshot; none was overwritten.
C5_FindsEverySave ==
    (Alive /\ Len(saves) <= MAX_PREDICTION_FRAMES
       /\ Cardinality(SavedFrames) = Len(saves)) =>
        \A i \in 1..Len(saves) :
            LET found == find_saved_frame_index(sync_layer, saves[i].state.frame)
            IN /\ found.res = "Ok"
               /\ found.ret = saves[i].slot
               /\ sync_layer.saved_states.states[found.ret] = saves[i].state

C5_Witness ==
    /\ Len(saves) = MAX_PREDICTION_FRAMES
    /\ saves[1].state.frame > saves[2].state.frame
    /\ sync_layer.saved_states.head = 0

\* a refused add_local_input leaves the Sync Layer as it was, and the
\* threshold is tested before the frame of the input is looked at
RefusedUnchanged ==
    last.op = "add_local_input" =>
        /\ FramesBehind > MAX_PREDICTION_FRAMES
              => last.res = "PredictionThreshold"
        /\ last.res = "PredictionThreshold"
              => (last.unchanged /\ last.ret = NULL_FRAME
                  /\ sync_layer.current_frame = last.pre_current_frame
                  /\ sync_layer.last_confirmed_frame
                        = last.pre_last_confirmed_frame)

\* a step from a refused add_local_input of the current frame's input, by
\* a set_last_confirmed_frame(f) with current_frame - f <=
\* MAX_PREDICTION_FRAMES, to a state in which the same call succeeds
RetrySucceeds ==
    (/\ last.op = "add_local_input"
     /\ last.res = "PredictionThreshold"
     /\ last.input.frame = sync_layer.current_frame
     /\ last.pre_added \in {NULL_FRAME, sync_layer.current_frame - 1}
     /\ last'.op = "set_last_confirmed_frame"
     /\ sync_layer'.current_frame - last'.arg <= MAX_PREDICTION_FRAMES)
    => LET retry == add_local_input(sync_layer', last.arg, last.input)
       IN /\ retry.res = "Ok"
          /\ retry.ret = last.input.frame

\* C17: PredictionThreshold is recoverable: an add_local_input call that
\* returns it stores no input and leaves current_frame,
\* last_confirmed_frame, the ring and every input queue unchanged (the
\* threshold test precedes the input.frame assertion), and the same call
\* succeeds once set_last_confirmed_frame(f) was called with
\* current_frame - f <= MAX_PREDICTION_FRAMES.
C17_Recoverable == [](RefusedUnchanged) /\ [][RetrySucceeds]_vars

\* a call refused although its input is not of the current frame, after
\* an earlier confirmation had let the caller go on
C17_Witness ==
    /\ last.op = "add_local_input"
    /\ last.res = "PredictionThreshold"
    /\ last.input.frame # last.pre_current_frame
    /\ last.pre_last_confirmed_frame >= 0
    /\ last.pre_added = last.pre_current_frame - 1

\* C18: a confirmed frame is never rolled past: every load_frame(f) that
\* succeeds has f >= last_confirmed_frame, so current_frame never drops
\* below last_confirmed_frame.
C18_NeverPastConfirmed ==
    /\ (LoadCall /\ last.res = "Ok")
          => last.arg >= last.pre_last_confirmed_frame
    /\ Alive => sync_layer.current_frame >= sync_layer.last_confirmed_frame

\* the snapshot is at least as new as every snapshot of its frame in the
\* ring; a snapshot's checksum is the number of rollbacks before its save
NewestInRing(state) ==
    \A i \in FrameSlots(sync_layer, state.frame) :
        \A x \in sync_layer.saved_states.states[i].checksum,
           y \in state.checksum : x <= y

\* C20: load_frame(f) loads the newest snapshot of frame f: the slot
\* find_saved_frame_index selects, the lowest ring index whose frame is f,
\* is the one written by the most recent save_current_state of a snapshot
\* of frame f.
C20_LoadsNewest ==
    (LoadCall /\ last.res = "Ok") =>
        /\ last.ret_state.frame = last.arg
        /\ NewestInRing(last.ret_state)

\* C15: last_saved_state always denotes the most recently saved snapshot:
\* after any sequence of save_current_state, load_frame and advance_frame
\* calls it is absent only if no snapshot was ever saved, and otherwise is
\* the snapshot passed to the most recent save_current_state call.
C15_HeadIsLastSave ==
    Alive => last_saved_state(sync_layer) = last.saved

\* what does hold: the snapshot at head is the most recent save as long as
\* no load_frame has succeeded since
C15_HeadUntilLoad ==
    (Alive /\ last.op \in {"save_current_state", "advance_frame"}
       /\ last.saved # {} /\ (\A x \in last.saved : x.checksum = {last.loads}))
        => last_saved_state(sync_layer) = last.saved

(* ======================= claims: Sync-Test Session ======================= *)

\* an advance_frame call on a started session
AdvanceCall == last.op = "advance_frame" /\ last.pre_running

Mismatch(pair) ==
    /\ pair.resimulated # {} /\ pair.original # {}
    /\ pair.resimulated # pair.original

\* C6: rollback idempotence.  In a started session with
\* 0 < check_distance < MAX_PREDICTION_FRAMES and a deterministic host every
\* advance_frame call returns Ok: each re-simulated checksum equals the one
\* recorded in the history for the same frame, SyncTestFailed is never
\* returned and no assertion fires.
C6_RollbackIdempotent ==
    (AdvanceCall /\ host.deterministic /\ sess.check_distance > 0) =>
        /\ last.res = "Ok"
        /\ \A k \in 1..Len(last.compared) :
              last.compared[k].resimulated = last.compared[k].original

C6_Witness ==
    /\ AdvanceCall /\ host.deterministic
    /\ sess.check_distance = MAX_PREDICTION_FRAMES - 1
    /\ Len(last.compared) = sess.check_distance
    /\ last.pre_frame = MAX_PREDICTION_FRAMES
    /\ last.compared[2].original = {2}
    /\ last.res = "Ok"

\* C7: with check_distance = 0 the rollback section is disabled: on a
\* started session every advance_frame call returns Ok without calling
\* load_frame.
C7_ZeroDistance ==
    (AdvanceCall /\ sess.check_distance = 0) =>
        (last.res = "Ok" /\ last.loads = 0)

\* C8: advance_frame returns SyncTestFailed iff for some re-simulated frame
\* the checksum of the re-saved snapshot and the one in the history are
\* both present and differ; a pair with an absent checksum is skipped and
\* causes no failure.
C8_FailsIffMismatch ==
    last.op = "advance_frame" =>
        /\ (last.res = "SyncTestFailed")
              <=> (\E k \in 1..Len(last.compared) : Mismatch(last.compared[k]))
        /\ last.res = "SyncTestFailed"
              => Mismatch(last.compared[Len(last.compared)])

C8_Witness ==
    /\ last.op = "advance_frame"
    /\ last.res = "SyncTestFailed"
    /\ \E k \in 1..Len(last.compared) :
          /\ last.compared[k].resimulated # last.compared[k].original
          /\ ~Mismatch(last.compared[k])

\* C9: in a session with 0 < check_distance < MAX_PREDICTION_FRAMES driven
\* frame by frame add_local_input never fails with PredictionThreshold:
\* the Sync Layer is never more than MAX_PREDICTION_FRAMES frames ahead of
\* its last confirmed frame.
C9_NeverThreshold ==
    sess.check_distance > 0 =>
        /\ last.op = "add_local_input" => last.res # "PredictionThreshold"
        /\ sync_layer.current_frame - sync_layer.last_confirmed_frame
              <= MAX_PREDICTION_FRAMES

C9_Witness ==
    /\ sess.check_distance > 0
    /\ last.op = "add_local_input"
    /\ last.pre_frame = MAX_PREDICTION_FRAMES
    /\ last.res = "Ok"

\* C10: add_player(p) fails with InvalidRequest exactly when
\* p.handle >= num_players and otherwise returns Ok(p.handle).
C10_RejectsFromNumPlayers ==
    last.op = "add_player" =>
        /\ (last.res = "InvalidRequest") <=> (last.arg >= sess.num_players)
        /\ (last.res # "InvalidRequest")
              => (last.res = "Ok" /\ last.ret = last.arg)

\* C11: add_local_input returns InvalidPlayerHandle for every handle
\* >= num_players on a started session and NotSynchronized for a valid
\* handle on a session not started; in both cases nothing reaches the Sync
\* Layer and no fatal error occurs.
C11_RejectsWithoutSubmitting ==
    last.op = "add_local_input" =>
        /\ last.res # "panic"
        /\ (last.pre_running /\ last.arg >= sess.num_players)
              => (last.res = "InvalidPlayerHandle" /\ last.layer_unchanged)
        /\ (~last.pre_running /\ last.arg < sess.num_players)
              => (last.res = "NotSynchronized" /\ last.layer_unchanged)

FrameDelays(sl) == [p \in DOMAIN sl.input_queues |-> sl.input_queues[p].frame_delay]

\* C12: once running a session stays running, and from then on every
\* start_session and every set_frame_delay call returns InvalidRequest and
\* changes no state; before that the first start_session returns Ok and
\* sets running = true and current_frame = 0.
C12_RunningIsFinal ==
    /\ last.pre_running => sess.running
    /\ (last.op \in {"start_session", "set_frame_delay"} /\ last.pre_running)
          => (last.res = "InvalidRequest" /\ last.unchanged)
    /\ (last.op = "start_session" /\ ~last.pre_running)
          => (last.res = "Ok" /\ sess.running /\ sess.current_frame = 0)

C12_Witness ==
    /\ last.op = "set_frame_delay"
    /\ last.pre_running
    /\ last.pre_frame = SetupMaxFrame
    /\ \E p \in DOMAIN sync_layer.input_queues : FrameDelays(sync_layer)[p] > 0

\* C13: set_frame_delay clamps the delay to MAX_INPUT_DELAY: on a session
\* not running the call for a player of the session completes normally for
\* every d and leaves the player's queue with frame_delay =
\* min(d, MAX_INPUT_DELAY).
C13_Clamps ==
    (last.op = "set_frame_delay" /\ ~last.pre_running
       /\ last.handle < sess.num_players) =>
        /\ last.res = "Ok"
        /\ FrameDelays(sync_layer)[last.handle]
              = Min({last.arg, MAX_INPUT_DELAY})

\* what the code does: delays up to MAX_INPUT_DELAY are taken over, larger
\* ones are a fatal assertion
C13_AssertsAbove ==
    (last.op = "set_frame_delay" /\ ~last.pre_running
       /\ last.handle < sess.num_players) =>
        IF last.arg <= MAX_INPUT_DELAY
        THEN last.res = "Ok" /\ FrameDelays(sync_layer)[last.handle] = last.arg
        ELSE last.res = "panic" /\ last.unchanged

\* C16: every advance_frame call on a started session that returns Ok
\* leaves the session's current_frame one greater than before the call and
\* equal to the Sync Layer's current_frame, whatever check_distance is and
\* however many frames were rolled back and re-simulated inside the call.
C16_OneFramePerCall ==
    (AdvanceCall /\ last.res = "Ok") =>
        /\ sess.current_frame = last.pre_frame + 1
        /\ sync_layer.current_frame = sess.current_frame

C16_Witness ==
    /\ AdvanceCall /\ last.res = "Ok"
    /\ sess.check_distance = 3
    /\ last.loads = 1
    /\ Len(last.compared) = 3
    /\ last.pre_frame = SessMaxFrame - 1
    /\ sync_layer.current_frame = SessMaxFrame

\* the rollback section is entered once the history holds more than
\* check_distance frames
RollbackDue == last.pre_frame >= sess.check_distance

\* C19: in a started session with 0 < check_distance <
\* MAX_PREDICTION_FRAMES every load_frame(current_frame - check_distance)
\* of the rollback section meets load_frame's preconditions and finds a
\* snapshot of that frame in the ring: the re-saves never overwrite the
\* next rollback target before it is loaded.
C19_TargetAlwaysFound ==
    (AdvanceCall /\ sess.check_distance > 0) =>
        /\ last.res # "panic"
        /\ last.loads = (IF RollbackDue THEN 1 ELSE 0)
        /\ RollbackDue =>
              /\ Len(last.compared) >= 1
              /\ last.compared[1].frame
                    = last.pre_frame + 1 - sess.check_distance

C19_Witness ==
    /\ AdvanceCall /\ RollbackDue
    /\ sess.check_distance = MAX_PREDICTION_FRAMES - 1
    /\ last.pre_frame = SessMaxFrame - 1
    /\ last.loads = 1
    /\ last.compared[1].frame = SessMaxFrame - sess.check_distance
    /\ \A i \in RingIdx : sync_layer.saved_states.states[i].frame # NULL_FRAME

(* ======================= claims: delayed inputs ======================= *)

\* the bits synchronized_inputs returned for player p are those handed in
\* frame_delay frames before the frame asked for
RoundTrip(p) ==
    LET d == FrameDelays(sync_layer)[p]
        f == last.pre_current_frame
    IN (f >= d /\ Len(saves[p]) > f) =>
          /\ last.inputs[p].frame = f
          /\ last.inputs[p].bits = saves[p][f - d + 1]

\* C14: delay round trip.  For a player with frame delay d, set before any
\* input, whose inputs b_0, b_1, ... are handed in one per frame with
\* add_remote_input, synchronized_inputs at a frame f > d whose input has
\* been handed in returns for that player an input of frame f with bits
\* b_(f-d); with d = 0 it returns b_f.  (The formula covers f = d as well.)
C14_DelayRoundTrip ==
    last.op = "synchronized_inputs" =>
        \A p \in DOMAIN last.inputs : RoundTrip(p)

C14_Witness ==
    /\ last.op = "synchronized_inputs"
    /\ FrameDelays(sync_layer)[0] = 2
    /\ FrameDelays(sync_layer)[1] = 0
    /\ last.pre_current_frame = 3
    /\ Len(saves[0]) = 4 /\ Len(saves[1]) = 4
    /\ saves[0][2] = 3
    /\ last.inputs[0].bits = 3
    /\ last.inputs[1].bits = 3

\* C21: the frame counters of the session and of the Sync Layer stay in
\* step across every return: on a running session, after any operation
\* has returned, including advance_frame returning SyncTestFailed, the
\* session's current_frame equals the Sync Layer's, and no later
\* add_local_input or advance_frame trips a frame assertion.
C21_FramesInStep ==
    (sess.running /\ sess.check_distance > 0) =>
        /\ Alive => sess.current_frame = sync_layer.current_frame
        /\ (\/ last.op = "advance_frame"
            \/ last.op = "add_local_input" /\ last.arg < sess.num_players)
              => last.res # "panic"

\* C22: the GeneralFailure outcome of advance_frame is unreachable: the
\* snapshot just saved is at head when last_saved_state is read, and the
\* history index of the rollback loop is inside the buffer whenever the
\* loop runs; no sequence of session operations makes advance_frame return
\* GeneralFailure.
C22_NoGeneralFailure ==
    /\ last.res # "GeneralFailure"
    /\ last.op = "advance_frame"
          => last.res \in {"Ok", "SyncTestFailed", "panic"}

C22_Witness ==
    /\ AdvanceCall /\ last.res = "Ok"
    /\ sess.check_distance = 1
    /\ last.pre_frame = MAX_PREDICTION_FRAMES
    /\ Len(sess.saved_frames) = MAX_PREDICTION_FRAMES
    /\ Len(last.compared) = 1

====
